---- MODULE Spec2Model ----
(***************************************************************************)
(* Model of .github/actions/assign-reviewers/assign_reviewers.py: the      *)
(* matching of changed files against the reviewer rules, the resolution of *)
(* the matched owner tokens (with the e-mail lookup and its retries) and   *)
(* the review request.                                                     *)
(*                                                                         *)
(* A Python str is modelled as a sequence of one-character strings, so     *)
(* that prefixes, stripping, globbing and the e-mail pattern are computed  *)
(* character by character as the code computes them.                       *)
(***************************************************************************)
EXTENDS Integers, Sequences, FiniteSets, TLC

VARIABLES rules, changed_files, pr_author, pc, hits, per_file, matched, idx,
          resolved, teams, retry_count, attempts, limited, slept, via,
          trace, request, exit_code

vars == <<rules, changed_files, pr_author, pc, hits, per_file, matched, idx,
          resolved, teams, retry_count, attempts, limited, slept, via,
          trace, request, exit_code>>

----------------------------------------------------------------------------
(* Bounds of the model *)

\* longest pattern and longest file path drawn in SpecMatch
MaxLen == 4
\* most rules in the rule file of a run
MaxRules == 2
\* most changed files of a run
MaxFiles == 2

(* Constants of the program *)

\* retry budget of the user search (retry_count < 3)
MaxRetries == 3
\* seconds slept before a retry (time.sleep(60))
Backoff == 60
\* HTTP status the user search treats as the rate-limit signal
RateLimited == 403
\* the statuses an HTTPError of the model carries
HTTPErrorCodes == {RateLimited, 404, 500}

----------------------------------------------------------------------------
(* Python str operations *)

StrsUpTo(chars, n) == UNION {[1..k -> chars] : k \in 1..n}

startswith(s, prefix) ==
    /\ Len(prefix) <= Len(s)
    /\ SubSeq(s, 1, Len(prefix)) = prefix

endswith(s, suffix) ==
    /\ Len(suffix) <= Len(s)
    /\ SubSeq(s, Len(s) - Len(suffix) + 1, Len(s)) = suffix

contains(s, c) == \E i \in 1..Len(s) : s[i] = c

\* str.lstrip(c): every leading c is removed
RECURSIVE lstrip(_, _)
lstrip(s, c) ==
    IF s # <<>> /\ Head(s) = c THEN lstrip(Tail(s), c) ELSE s

\* str.rstrip(c): every trailing c is removed
RECURSIVE rstrip(_, _)
rstrip(s, c) ==
    IF s # <<>> /\ s[Len(s)] = c THEN rstrip(SubSeq(s, 1, Len(s) - 1), c) ELSE s

\* A glob in which '*' and '?' stop at the path separator.
RECURSIVE fnmatch_pathname(_, _)
fnmatch_pathname(name, pat) ==
    IF pat = <<>> THEN name = <<>>
    ELSE IF Head(pat) = "*" THEN
        \/ fnmatch_pathname(name, Tail(pat))
        \/ name # <<>> /\ Head(name) # "/" /\ fnmatch_pathname(Tail(name), pat)
    ELSE IF Head(pat) = "?" THEN
        name # <<>> /\ Head(name) # "/" /\ fnmatch_pathname(Tail(name), Tail(pat))
    ELSE name # <<>> /\ Head(name) = Head(pat)
                     /\ fnmatch_pathname(Tail(name), Tail(pat))

\* fnmatch.fnmatch(name, pat) on a POSIX host (normcase is the identity):
\* '*' matches any run of characters, '?' any one character, the path
\* separator is not special, and the whole name must match.  Bracket
\* expressions are not modelled; no pattern of the model contains '['.
RECURSIVE fnmatch(_, _)
fnmatch(name, pat) ==
    IF pat = <<>> THEN name = <<>>
    ELSE IF Head(pat) = "*" THEN
        \/ fnmatch(name, Tail(pat))
        \/ name # <<>> /\ fnmatch(Tail(name), pat)
    ELSE IF Head(pat) = "?" THEN
        name # <<>> /\ fnmatch(Tail(name), Tail(pat))
    ELSE name # <<>> /\ Head(name) = Head(pat) /\ fnmatch(Tail(name), Tail(pat))

----------------------------------------------------------------------------
(* match_files_to_reviewers *)

normalized_pattern(pattern) == lstrip(pattern, "/")

IsDirPattern(pattern) == endswith(normalized_pattern(pattern), <<"/">>)

dir_pattern(pattern) == rstrip(normalized_pattern(pattern), "/")

\* A directory test that compares the bare string prefix.
DirMatchesPrefix(file_path, dir) == startswith(file_path, dir)

\* the test of a directory pattern
DirMatches(file_path, dir) ==
    startswith(file_path, dir \o <<"/">>) \/ file_path = dir

\* does the rule's pattern match the file: the two branches of the inner loop
RuleMatches(file_path, pattern) ==
    IF IsDirPattern(pattern)
    THEN DirMatches(file_path, dir_pattern(pattern))
    ELSE fnmatch(file_path, normalized_pattern(pattern))

\* The inner loop keeping the first matching rule instead of the last.
RECURSIVE FirstMatchLoop(_, _, _, _)
FirstMatchLoop(file_path, rs, i, cur) ==
    IF i > Len(rs) THEN cur
    ELSE IF cur = <<>> /\ RuleMatches(file_path, rs[i].pattern)
         THEN FirstMatchLoop(file_path, rs, i + 1, rs[i].reviewers)
         ELSE FirstMatchLoop(file_path, rs, i + 1, cur)

\* the inner loop over the rules from rule i on; cur is matched_reviewers
RECURSIVE MatchLoop(_, _, _, _)
MatchLoop(file_path, rs, i, cur) ==
    IF i > Len(rs) THEN cur
    ELSE IF RuleMatches(file_path, rs[i].pattern)
         THEN MatchLoop(file_path, rs, i + 1, rs[i].reviewers)
         ELSE MatchLoop(file_path, rs, i + 1, cur)

\* matched_reviewers of one file when the inner loop ends
matched_reviewers(file_path, rs) == MatchLoop(file_path, rs, 1, <<>>)

\* all_reviewers: the per-file lists, extended in file order
RECURSIVE Flatten(_)
Flatten(lists) ==
    IF lists = <<>> THEN <<>> ELSE Head(lists) \o Flatten(Tail(lists))

Range(s) == {s[i] : i \in 1..Len(s)}

\* "Remove duplicates while preserving order"
RECURSIVE unique_reviewers(_, _)
unique_reviewers(all, unique) ==
    IF all = <<>> THEN unique
    ELSE IF Head(all) \in Range(unique)
         THEN unique_reviewers(Tail(all), unique)
         ELSE unique_reviewers(Tail(all), Append(unique, Head(all)))

match_files_to_reviewers(files, rs) ==
    unique_reviewers(
        Flatten([i \in 1..Len(files) |-> matched_reviewers(files[i], rs)]), <<>>)

----------------------------------------------------------------------------
(* resolve_reviewers: the lexical tests *)

Lower == {"a","b","c","d","e","f","g","h","i","j","k","l","m",
          "n","o","p","q","r","s","t","u","v","w","x","y","z"}
Upper == {"A","B","C","D","E","F","G","H","I","J","K","L","M",
          "N","O","P","Q","R","S","T","U","V","W","X","Y","Z"}
Digits == {"0","1","2","3","4","5","6","7","8","9"}
Alpha == Lower \cup Upper
LocalChars == Alpha \cup Digits \cup {".", "_", "%", "+", "-"}
DomainChars == Alpha \cup Digits \cup {".", "-"}

\* email_pattern.match(s):  ^[a-zA-Z0-9._%+-]+@[a-zA-Z0-9.-]+\.[a-zA-Z]{2,}$
email_pattern(s) ==
    \E i \in 2..Len(s) : \E j \in (i + 2)..(Len(s) - 2) :
        /\ s[i] = "@"
        /\ s[j] = "."
        /\ \A k \in 1..(i - 1) : s[k] \in LocalChars
        /\ \A k \in (i + 1)..(j - 1) : s[k] \in DomainChars
        /\ \A k \in (j + 1)..Len(s) : s[k] \in Alpha

----------------------------------------------------------------------------
(* The inputs of the model *)

\* account logins
Alice == <<"a">>
Bob == <<"b">>
Carol == <<"c">>

\* owner tokens of the rule file
TokAtAlice == <<"@", "a">>
TokAlice == <<"a">>
TokAtBob == <<"@", "b">>
TokEmail == <<"e", "@", "x", ".", "i", "o">>
TokAtTeam == <<"@", "o", "/", "t">>
TokTeam == <<"o", "/", "t">>

OwnerLists == { <<TokAtAlice, TokEmail, TokAtTeam>>,
                <<TokAlice, TokTeam>>,
                <<TokEmail>>,
                <<TokAtBob>> }

\* patterns and changed files of a run
RunPatterns == { <<"d", "/">>, <<"d", "/", "d", "/">>, <<"*", "d">> }
RunFiles == { <<"d", "/", "-">>, <<"d", "/", "d", "/", "d">> }

\* logins the lookup service can answer with
Logins == {Alice, Bob}
Authors == {Alice, Carol}

RuleSet == [pattern : RunPatterns, reviewers : OwnerLists]

SeqsUpTo(S, n) == UNION {[1..k -> S] : k \in 0..n}

NoRepeat(s) == \A i, j \in 1..Len(s) : s[i] = s[j] => i = j

\* characters of the patterns and of the paths drawn in SpecMatch
PatChars == {"d", "/", "*", "?"}
FileChars == {"d", "/", "-"}

RECURSIVE Split(_, _)
\* s.split(sep), the current segment being cur
Split(s, cur) ==
    IF s = <<>> THEN <<cur>>
    ELSE IF Head(s) = "/" THEN <<cur>> \o Split(Tail(s), <<>>)
    ELSE Split(Tail(s), Append(cur, Head(s)))

Segments(s) == Split(s, <<>>)

\* a repository-relative path as the host reports it: no empty segment
IsRepoPath(f) == \A k \in 1..Len(Segments(f)) : Segments(f)[k] # <<>>

NoRequest == [sent |-> FALSE, reviewers |-> <<>>, team_reviewers |-> <<>>]

----------------------------------------------------------------------------
(* The run: main() from the matching on *)

InitRest ==
    /\ pc = "match"
    /\ hits = <<>>
    /\ per_file = <<>>
    /\ matched = <<>>
    /\ idx = 0
    /\ resolved = <<>>
    /\ teams = <<>>
    /\ retry_count = 0
    /\ attempts = 0
    /\ limited = 0
    /\ slept = 0
    /\ via = "none"
    /\ trace = <<>>
    /\ request = NoRequest
    /\ exit_code = 0

Init ==
    /\ rules \in SeqsUpTo(RuleSet, MaxRules)
    /\ changed_files \in {fs \in SeqsUpTo(RunFiles, MaxFiles) : NoRepeat(fs)}
    /\ pr_author \in Authors
    /\ InitRest

\* one rule and one changed file, drawn over the two alphabets
InitMatch ==
    /\ rules \in {<<[pattern |-> p, reviewers |-> <<TokAtAlice>>]>> :
                    p \in StrsUpTo(PatChars, MaxLen)}
    /\ changed_files \in {<<f>> : f \in {g \in StrsUpTo(FileChars, MaxLen) :
                                            IsRepoPath(g)}}
    /\ pr_author = Carol
    /\ InitRest

\* matched_reviewers = match_files_to_reviewers(changed_files, rules) and
\* the test "if matched_reviewers:" of main
Match ==
    /\ pc = "match"
    /\ hits' = [i \in 1..Len(changed_files) |->
                  {j \in 1..Len(rules) :
                      RuleMatches(changed_files[i], rules[j].pattern)}]
    /\ per_file' = [i \in 1..Len(changed_files) |->
                      matched_reviewers(changed_files[i], rules)]
    /\ matched' = match_files_to_reviewers(changed_files, rules)
    /\ idx' = 1
    /\ pc' = IF matched' = <<>> THEN "done" ELSE "resolve"
    /\ UNCHANGED <<rules, changed_files, pr_author, resolved, teams,
                   retry_count, attempts, limited, slept, via, trace,
                   request, exit_code>>

NextMatch == Match

SpecMatch == InitMatch /\ [][NextMatch]_vars

----------------------------------------------------------------------------
(* resolve_reviewers: the loop over the matched tokens *)

\* A team test that looks at the separator only.
IsTeamAnySlash(reviewer) == contains(reviewer, "/")

\* the branch tests of the loop body, in the order the code tries them
IsTeamToken(reviewer) == startswith(reviewer, <<"@">>) /\ contains(reviewer, "/")
IsAtToken(reviewer) == startswith(reviewer, <<"@">>)

Entry(tok, kind, found, value) ==
    [token |-> tok, kind |-> kind, found |-> found, value |-> value]

Resolving == pc = "resolve" /\ idx <= Len(matched)

\* if reviewer.startswith('@') and '/' in reviewer: teams.append(reviewer[1:])
ResolveTeam ==
    /\ Resolving
    /\ IsTeamToken(matched[idx])
    /\ teams' = Append(teams, Tail(matched[idx]))
    /\ trace' = Append(trace, Entry(matched[idx], "team", TRUE, Tail(matched[idx])))
    /\ idx' = idx + 1
    /\ UNCHANGED <<rules, changed_files, pr_author, pc, hits, per_file, matched,
                   resolved, retry_count, attempts, limited, slept, via,
                   request, exit_code>>

\* elif reviewer.startswith('@'): resolved.append(reviewer[1:])
ResolveAtUsername ==
    /\ Resolving
    /\ ~IsTeamToken(matched[idx])
    /\ IsAtToken(matched[idx])
    /\ resolved' = Append(resolved, Tail(matched[idx]))
    /\ trace' = Append(trace, Entry(matched[idx], "username", TRUE, Tail(matched[idx])))
    /\ idx' = idx + 1
    /\ UNCHANGED <<rules, changed_files, pr_author, pc, hits, per_file, matched,
                   teams, retry_count, attempts, limited, slept, via,
                   request, exit_code>>

\* elif email_pattern.match(reviewer): email_to_username(reviewer, token, repo)
\* is entered with retry_count = 0
ResolveEmail ==
    /\ Resolving
    /\ ~IsTeamToken(matched[idx])
    /\ ~IsAtToken(matched[idx])
    /\ email_pattern(matched[idx])
    /\ pc' = "search"
    /\ retry_count' = 0
    /\ attempts' = 0
    /\ limited' = 0
    /\ slept' = 0
    /\ via' = "none"
    /\ UNCHANGED <<rules, changed_files, pr_author, hits, per_file, matched, idx,
                   resolved, teams, trace, request, exit_code>>

\* else: resolved.append(reviewer)
ResolvePlain ==
    /\ Resolving
    /\ ~IsTeamToken(matched[idx])
    /\ ~IsAtToken(matched[idx])
    /\ ~email_pattern(matched[idx])
    /\ resolved' = Append(resolved, matched[idx])
    /\ trace' = Append(trace, Entry(matched[idx], "username", TRUE, matched[idx]))
    /\ idx' = idx + 1
    /\ UNCHANGED <<rules, changed_files, pr_author, pc, hits, per_file, matched,
                   teams, retry_count, attempts, limited, slept, via,
                   request, exit_code>>

\* return resolved, teams; then main's "if reviewers or teams:"
ResolveReturn ==
    /\ pc = "resolve"
    /\ idx > Len(matched)
    /\ pc' = IF resolved # <<>> \/ teams # <<>> THEN "assign" ELSE "done"
    /\ UNCHANGED <<rules, changed_files, pr_author, hits, per_file, matched, idx,
                   resolved, teams, retry_count, attempts, limited, slept, via,
                   trace, request, exit_code>>

----------------------------------------------------------------------------
(* email_to_username and email_to_username_via_commits *)

\* email_to_username returns username to resolve_reviewers, which appends it
\* ("if username:"); the loop goes on with the next token
ReturnUsername(username, how) ==
    /\ resolved' = Append(resolved, username)
    /\ trace' = Append(trace, Entry(matched[idx], "email", TRUE, username))
    /\ via' = how
    /\ idx' = idx + 1
    /\ pc' = "resolve"

\* A failed lookup that ends the loop over the tokens.
ReturnNoneAndStop ==
    /\ resolved' = resolved
    /\ trace' = Append(trace, Entry(matched[idx], "email", FALSE, <<>>))
    /\ via' = "dropped"
    /\ idx' = Len(matched) + 1
    /\ pc' = "resolve"

\* email_to_username returns None: nothing is appended
ReturnNone ==
    /\ resolved' = resolved
    /\ trace' = Append(trace, Entry(matched[idx], "email", FALSE, <<>>))
    /\ via' = "dropped"
    /\ idx' = idx + 1
    /\ pc' = "resolve"

\* A retry test that allows one retry less.
CanRetryShort(code, count) == code = RateLimited /\ count < MaxRetries - 1

\* A retry test that allows one retry more.
CanRetryLong(code, count) == code = RateLimited /\ count <= MaxRetries

\* if e.code == 403 and retry_count < 3
CanRetry(code, count) == code = RateLimited /\ count < MaxRetries

\* the user search answers with total_count > 0
SearchFound ==
    /\ pc = "search"
    /\ attempts' = attempts + 1
    /\ \E username \in Logins : ReturnUsername(username, "search")
    /\ UNCHANGED <<rules, changed_files, pr_author, hits, per_file, matched,
                   teams, retry_count, limited, slept, request, exit_code>>

\* the user search answers with total_count = 0: on to strategy 2
SearchEmpty ==
    /\ pc = "search"
    /\ attempts' = attempts + 1
    /\ pc' = "commits"
    /\ UNCHANGED <<rules, changed_files, pr_author, hits, per_file, matched, idx,
                   resolved, teams, retry_count, limited, slept, via, trace,
                   request, exit_code>>

\* the user search raises HTTPError: sleep and recurse with retry_count + 1,
\* or report the failure and go on to strategy 2
SearchHTTPError ==
    /\ pc = "search"
    /\ attempts' = attempts + 1
    /\ \E code \in HTTPErrorCodes :
         /\ limited' = IF code = RateLimited THEN limited + 1 ELSE limited
         /\ IF CanRetry(code, retry_count)
            THEN /\ slept' = slept + Backoff
                 /\ retry_count' = retry_count + 1
                 /\ pc' = "search"
            ELSE /\ pc' = "commits"
                 /\ UNCHANGED <<slept, retry_count>>
    /\ UNCHANGED <<rules, changed_files, pr_author, hits, per_file, matched, idx,
                   resolved, teams, via, trace, request, exit_code>>

\* the commit search finds a commit with an attributed account
CommitsFound ==
    /\ pc = "commits"
    /\ \E username \in Logins : ReturnUsername(username, "commits")
    /\ UNCHANGED <<rules, changed_files, pr_author, hits, per_file, matched,
                   teams, retry_count, attempts, limited, slept, request,
                   exit_code>>

\* the commit search finds nothing or raises HTTPError: the warning, None
CommitsNone ==
    /\ pc = "commits"
    /\ ReturnNone
    /\ UNCHANGED <<rules, changed_files, pr_author, hits, per_file, matched,
                   teams, retry_count, attempts, limited, slept, request,
                   exit_code>>

----------------------------------------------------------------------------
(* assign_reviewers *)

\* A filter that lets every reviewer through.
KeepAll(reviewers, author) == reviewers

\* reviewers = [r for r in reviewers if r != pr_author]
FilterAuthor(reviewers, author) ==
    SelectSeq(reviewers, LAMBDA r : r # author)

\* A test that never takes the early return.
NeverEmpty(reviewers, ts) == FALSE

\* if not reviewers and not teams
NothingToAssign(reviewers, ts) == reviewers = <<>> /\ ts = <<>>

\* the early return: no request is made
AssignNothing ==
    /\ pc = "assign"
    /\ NothingToAssign(FilterAuthor(resolved, pr_author), teams)
    /\ pc' = "done"
    /\ UNCHANGED <<rules, changed_files, pr_author, hits, per_file, matched, idx,
                   resolved, teams, retry_count, attempts, limited, slept, via,
                   trace, request, exit_code>>

\* the POST to requested_reviewers; an HTTPError ends the run with sys.exit(1)
AssignSubmit ==
    /\ pc = "assign"
    /\ ~NothingToAssign(FilterAuthor(resolved, pr_author), teams)
    /\ request' = [sent |-> TRUE,
                   reviewers |-> FilterAuthor(resolved, pr_author),
                   team_reviewers |-> teams]
    /\ \E ok \in BOOLEAN : exit_code' = IF ok THEN 0 ELSE 1
    /\ pc' = "done"
    /\ UNCHANGED <<rules, changed_files, pr_author, hits, per_file, matched, idx,
                   resolved, teams, retry_count, attempts, limited, slept, via,
                   trace>>

Next ==
    \/ Match
    \/ ResolveTeam
    \/ ResolveAtUsername
    \/ ResolveEmail
    \/ ResolvePlain
    \/ ResolveReturn
    \/ SearchFound
    \/ SearchEmpty
    \/ SearchHTTPError
    \/ CommitsFound
    \/ CommitsNone
    \/ AssignNothing
    \/ AssignSubmit

Spec == Init /\ [][Next]_vars

----------------------------------------------------------------------------
(* Properties *)

Matched == pc # "match"
Files == 1..Len(changed_files)
Rules == 1..Len(rules)

Max(S) == CHOOSE m \in S : \A n \in S : n <= m

IsPrefixSeq(a, b) == Len(a) <= Len(b) /\ SubSeq(b, 1, Len(a)) = a

\* C1: every changed file gets exactly the owner list of the last rule, in
\* declaration order, whose pattern matches it, and no owners when no rule
\* matches; the matched tokens are the members of these per-file lists.
C1_LastMatchWins ==
    Matched =>
        /\ Len(per_file) = Len(changed_files)
        /\ \A i \in Files :
             per_file[i] = IF hits[i] = {} THEN <<>>
                           ELSE rules[Max(hits[i])].reviewers
        /\ Range(matched) = UNION {Range(per_file[i]) : i \in Files}

\* a file matched by two rules with different owners, the later one winning
C1_Witness ==
    /\ Matched
    /\ \E i \in Files : \E j, k \in hits[i] :
         /\ j < k
         /\ k = Max(hits[i])
         /\ rules[j].reviewers # rules[k].reviewers
         /\ per_file[i] = rules[k].reviewers

\* C2: a pattern ending with '/' matches a changed file exactly when the
\* path segments of the directory name (leading and trailing '/' dropped)
\* are the leading path segments of the file.
C2_DirBoundary ==
    Matched =>
        \A i \in Files : \A j \in Rules :
            endswith(rules[j].pattern, <<"/">>) =>
                (j \in hits[i] <=>
                    IsPrefixSeq(Segments(dir_pattern(rules[j].pattern)),
                                Segments(changed_files[i])))

\* a file that has the directory name as a string prefix only is not matched
C2_Witness ==
    /\ Matched
    /\ \E i \in Files : \E j \in Rules :
         /\ endswith(rules[j].pattern, <<"/">>)
         /\ dir_pattern(rules[j].pattern) # <<>>
         /\ startswith(changed_files[i], dir_pattern(rules[j].pattern))
         /\ changed_files[i] # dir_pattern(rules[j].pattern)
         /\ j \notin hits[i]

NoWildcard(s) == ~contains(s, "*") /\ ~contains(s, "?")

\* C3 as stated: a pattern without a trailing '/' matches only as a glob
\* whose wildcards stop at '/'.
C3_Original ==
    Matched =>
        \A i \in Files : \A j \in Rules :
            (~endswith(rules[j].pattern, <<"/">>) /\ j \in hits[i]) =>
                fnmatch_pathname(changed_files[i],
                                 normalized_pattern(rules[j].pattern))

\* C3 amended: a pattern without a trailing '/' is a glob over the whole
\* path whose '*' also runs across '/': '*' followed by a literal suffix
\* matches exactly the files ending in the suffix, whatever their directory,
\* and a pattern without wildcards matches exactly the file equal to it.
C3_GlobCrossesSeparator ==
    Matched =>
        \A i \in Files : \A j \in Rules :
            LET np == normalized_pattern(rules[j].pattern)
                f == changed_files[i]
            IN  ~endswith(np, <<"/">>) =>
                  /\ NoWildcard(np) => (j \in hits[i] <=> f = np)
                  /\ (np # <<>> /\ Head(np) = "*" /\ NoWildcard(Tail(np))) =>
                        (j \in hits[i] <=> endswith(f, Tail(np)))

\* '*' and a literal suffix match a file of a subdirectory
C3_Witness ==
    /\ Matched
    /\ \E i \in Files : \E j \in hits[i] :
         LET np == normalized_pattern(rules[j].pattern)
         IN  /\ Len(np) > 1
             /\ Head(np) = "*"
             /\ NoWildcard(Tail(np))
             /\ ~contains(np, "/")
             /\ contains(changed_files[i], "/")
             /\ matched = rules[j].reviewers

\* C4: the reviewers of a submitted request never include the PR author, and
\* a run that ends with teams has submitted them.
C4_AuthorExcluded ==
    /\ request.sent => pr_author \notin Range(request.reviewers)
    /\ (pc = "done" /\ teams # <<>>) =>
          (request.sent /\ request.team_reviewers = teams)

\* the author was the only individual reviewer and the teams were submitted
C4_Witness ==
    /\ pc = "done"
    /\ resolved # <<>>
    /\ \A k \in 1..Len(resolved) : resolved[k] = pr_author
    /\ request.sent
    /\ request.reviewers = <<>>
    /\ request.team_reviewers # <<>>

\* C5: no request is submitted with neither reviewers nor teams, and a run
\* left with nothing but the author ends without a request and with exit
\* code 0.
C5_NoEmptyRequest ==
    /\ request.sent =>
          (request.reviewers # <<>> \/ request.team_reviewers # <<>>)
    /\ (pc = "done" /\ teams = <<>>
          /\ \A k \in 1..Len(resolved) : resolved[k] = pr_author) =>
          (~request.sent /\ exit_code = 0)

\* tokens were matched, all were dropped or the author, and nothing was sent
C5_Witness ==
    /\ pc = "done"
    /\ resolved # <<>>
    /\ \A k \in 1..Len(resolved) : resolved[k] = pr_author
    /\ teams = <<>>
    /\ ~request.sent
    /\ exit_code = 0

\* the user search of the current e-mail token is over and every attempt
\* was answered with the rate-limit signal
AllRateLimited ==
    /\ attempts > 0
    /\ limited = attempts
    /\ pc = "commits" \/ via # "none"

\* C6 as stated: after the rate-limited retries the token is dropped.
C6_Original ==
    (AllRateLimited /\ via # "none") =>
        /\ attempts = 4
        /\ slept = 180
        /\ via = "dropped"

\* C6 amended: when every attempt is rate-limited there are exactly 3
\* retries, each after a 60 second wait; then the commit search is tried,
\* the token is dropped only if that finds nothing, and the run goes on.
C6_RetriesThenFallback ==
    AllRateLimited =>
        /\ attempts = 4
        /\ retry_count = 3
        /\ slept = 180
        /\ via \in {"none", "commits", "dropped"}
        /\ via = "dropped" =>
              \E k \in 1..Len(trace) :
                  /\ trace[k].kind = "email"
                  /\ ~trace[k].found
                  /\ Len(resolved) =
                        Cardinality({n \in 1..Len(trace) :
                                       trace[n].kind # "team" /\ trace[n].found})
        /\ exit_code = 1 => request.sent

\* every attempt was rate-limited, the commit search found nothing
C6_Witness ==
    /\ AllRateLimited
    /\ via = "dropped"
    /\ attempts = 4
    /\ pc = "done"

\* C7 as stated: no token that contains '/' ends up among the usernames.
C7_Original ==
    \A k \in 1..Len(trace) :
        contains(trace[k].token, "/") => trace[k].kind = "team"

TeamValues(tr) == SelectSeq(tr, LAMBDA e : e.kind = "team")
UserValues(tr) == SelectSeq(tr, LAMBDA e : e.kind # "team" /\ e.found)

\* C7 amended: a token that starts with '@' and contains '/' is a team (the
\* '@' stripped); otherwise a token that starts with '@' is a username (the
\* '@' stripped); otherwise a token matching the e-mail pattern is looked
\* up; otherwise the token is a username as written, also when it contains
\* '/'.  The two lists hold exactly these values in token order.
C7_Classification ==
    /\ \A k \in 1..Len(trace) :
         LET e == trace[k]
             t == e.token
         IN  /\ t = matched[k]
             /\ IF t[1] = "@" /\ contains(t, "/")
                THEN e.kind = "team" /\ e.value = Tail(t)
                ELSE IF t[1] = "@"
                THEN e.kind = "username" /\ e.value = Tail(t)
                ELSE IF email_pattern(t)
                THEN e.kind = "email"
                ELSE e.kind = "username" /\ e.value = t
    /\ teams = [k \in 1..Len(TeamValues(trace)) |-> TeamValues(trace)[k].value]
    /\ resolved = [k \in 1..Len(UserValues(trace)) |-> UserValues(trace)[k].value]

\* a token with '/' and no leading '@' went to the usernames
C7_Witness ==
    \E k \in 1..Len(trace) :
        /\ contains(trace[k].token, "/")
        /\ trace[k].token[1] # "@"
        /\ trace[k].kind = "username"
        /\ trace[k].token \in Range(resolved)

\* C8: the usernames and the teams handed to the review request hold every
\* resolved identity at most once.
C8_NoDuplicates ==
    pc = "assign" => (NoRepeat(resolved) /\ NoRepeat(teams))

StripAt(t) == IF t[1] = "@" THEN Tail(t) ELSE t

\* C9: a lookup that fails in both strategies drops only its token: the run
\* does not exit on it, every token is processed, the other tokens are in
\* the lists, and what remains is submitted.
C9_LookupFailureIsLocal ==
    /\ exit_code = 1 => request.sent
    /\ (pc \in {"assign", "done"} /\ matched # <<>>) =>
          /\ Len(trace) = Len(matched)
          /\ \A k \in 1..Len(matched) :
               IF trace[k].kind = "email"
               THEN trace[k].found => trace[k].value \in Range(resolved)
               ELSE StripAt(matched[k]) \in Range(resolved) \cup Range(teams)
    /\ (pc = "done" /\ (teams # <<>>
                          \/ \E k \in 1..Len(resolved) : resolved[k] # pr_author)) =>
          /\ request.sent
          /\ request.team_reviewers = teams
          /\ Range(request.reviewers) = Range(resolved) \ {pr_author}

\* an e-mail token between two other tokens was dropped, the rest was sent
C9_Witness ==
    /\ pc = "done"
    /\ request.sent
    /\ \E k \in 2..(Len(trace) - 1) : trace[k].kind = "email" /\ ~trace[k].found
    /\ request.reviewers # <<>>
    /\ request.team_reviewers # <<>>

\* C10 as stated: the user search is attempted at most 3 times per token.
C10_Original == attempts <= 3

\* C10 amended: the user search is attempted at most 4 times per token (the
\* first attempt and up to 3 retries); every re-attempt follows a rate-limit
\* signal and a 60 second wait.
C10_AtMostFourAttempts ==
    /\ attempts <= 4
    /\ pc = "search" => (slept = 60 * attempts /\ limited = attempts)
    /\ (pc # "search" /\ attempts > 0) =>
          (slept = 60 * (attempts - 1) /\ limited >= attempts - 1)

\* the fourth attempt found the account
C10_Witness ==
    /\ attempts = 4
    /\ via = "search"

====
